---- MODULE Spec2Model ----
(***************************************************************************)
(* Model of src/bnn_for_14C_calibration/manage_cache.py: the local cache   *)
(* of the 'models' folder, filled from the GitHub contents API with some   *)
(* entries redirected to Google Drive by a per-directory drive_map.json.   *)
(*                                                                         *)
(* Paths are sequences of names.  A URL is the sequence of its pieces, so  *)
(* that Python's substring test `"x" in url` is a test on pieces.  File    *)
(* contents are sequences of lines, a line being a sequence of tokens.     *)
(***************************************************************************)
EXTENDS Naturals, Sequences, FiniteSets, TLC

VARIABLES
    remote,     \* the GitHub side: which files exist, their bytes, which lack a download_url
    local,      \* the local file system under the home directory: path -> node
    stack,      \* the call stack of _download_folder frames, innermost last
    pc,         \* "idle" (no call in progress) or "walk" (inside download_github_with_drive_map)
    call,       \* the entry point and arguments of the last call
    outcome,    \* how the last call ended: "none", "running", "skipped", "returned", "raised"
    log,        \* the network requests and file writes of the last call, in order
    changes     \* number of upstream deletions so far

vars == <<remote, local, stack, pc, call, outcome, log, changes>>

\* How many files may be deleted upstream between calls.
MaxRemoteChanges == 1

(***************************************************************************)
(* Names, paths and URLs                                                   *)
(***************************************************************************)
CACHE_DIR_NAME == ".bnn_for_14C_calibration"

CACHE_DIR == <<CACHE_DIR_NAME>>

MODELS_DIR_LOCAL == CACHE_DIR \o <<"models">>

\* "https://api.github.com/repos/dest-ash/bnn_for_14C_calibration/contents/models".split('/')
MODELS_DIR_API_URL ==
    <<"https:", "", "api.github.com", "repos", "dest-ash",
      "bnn_for_14C_calibration", "contents", "models">>

DRIVE_MAP_NAME == "drive_map.json"

\* Override URLs used in the manifests of the modelled remote trees.
DriveFileUrl == <<"https://", "drive.google.com", "/file/d/", "FID1", "/view?usp=sharing">>
DriveOpenUrl == <<"https://", "drive.google.com", "/open", "?id=", "FID2">>
DriveFolderUrl == <<"https://", "drive.google.com", "/drive/folders/", "FOLD1">>
OtherHostUrl == <<"https://", "www.dropbox.com", "/s/", "abc", "?dl=1">>

\* Python's `needle in url` for a needle made of whole pieces.
Contains(url, needle) ==
    \E i \in 1..Len(url) :
        /\ i + Len(needle) - 1 <= Len(url)
        /\ \A k \in 1..Len(needle) : url[i + k - 1] = needle[k]

is_google_drive_url(url) == Contains(url, <<"drive.google.com">>)

NoId == "None"

\* re.search(r"/file/d/([^/]+)") first, then re.search(r"[?&]id=([^&]+)"), else None
extract_drive_file_id(url) ==
    LET after(marks) == {i \in 1..(Len(url) - 1) : url[i] \in marks}
        first(S) == CHOOSE i \in S : \A j \in S : i <= j
    IN  IF after({"/file/d/"}) # {} THEN url[first(after({"/file/d/"})) + 1]
        ELSE IF after({"?id=", "&id="}) # {} THEN url[first(after({"?id=", "&id="})) + 1]
        ELSE NoId

(***************************************************************************)
(* File contents                                                           *)
(***************************************************************************)
LFS_HEADER == <<"version", "https://git-lfs.github.com/spec/v1">>

PlainBytes(tag) == << <<"payload", tag>> >>

PointerBytes == <<LFS_HEADER, <<"oid", "sha256:0a1b">>, <<"size", "123456789">>>>

DriveBytes == << <<"payload", "from-drive">> >>

\* The text of a JSON object, one `"name": "url"` pair per line between the braces.
JsonText(pairs) == << <<"{">> >> \o pairs \o << <<"}">> >>

Pair(name, url) == <<name>> \o url

TruncatedJson == << <<"{">>, Pair("big.bin", DriveFileUrl) >>

\* A large-file pointer: the first line is the Git LFS version header.
IsPointer(bytes) == Len(bytes) > 0 /\ bytes[1] = LFS_HEADER

\* json.load of the manifest: ok = FALSE stands for json.JSONDecodeError.
json_load(bytes) ==
    LET n == Len(bytes)
        wellFormed ==
            /\ n >= 2
            /\ bytes[1] = <<"{">>
            /\ bytes[n] = <<"}">>
            /\ \A i \in 2..(n - 1) : Len(bytes[i]) >= 2
        keys == {bytes[i][1] : i \in 2..(n - 1)}
        lastOf(k) == CHOOSE i \in 2..(n - 1) :
                        /\ bytes[i][1] = k
                        /\ \A j \in 2..(n - 1) : bytes[j][1] = k => j <= i
    IN  IF wellFormed
        THEN [ok |-> TRUE, value |-> [k \in keys |-> Tail(bytes[lastOf(k)])]]
        ELSE [ok |-> FALSE, value |-> <<>>]

(***************************************************************************)
(* The remote repository (GitHub contents API and raw downloads)           *)
(***************************************************************************)
\* The 'models' folder: names in the order the contents API lists them.
RootNames == <<"big.bin", DRIVE_MAP_NAME, "sub", "z.txt">>

SubNames == <<DRIVE_MAP_NAME, "w.bin">>

RemoteDirs == {<<>>, <<"sub">>}

NamesOf(dir) == IF dir = <<>> THEN RootNames ELSE SubNames

RemoteFilePaths ==
    {<<"big.bin">>, <<DRIVE_MAP_NAME>>, <<"z.txt">>,
     <<"sub", DRIVE_MAP_NAME>>, <<"sub", "w.bin">>}

\* Manifests a directory of the modelled trees may carry.
RootManifests ==
    { JsonText(<<Pair("big.bin", DriveFileUrl)>>),
      JsonText(<<Pair("big.bin", OtherHostUrl), Pair("z.txt", DriveOpenUrl)>>),
      JsonText(<<Pair("sub", DriveFolderUrl), Pair("w.bin", DriveFileUrl)>>),
      JsonText(<<Pair("w.bin", DriveFileUrl)>>),
      TruncatedJson }

SubManifests ==
    { JsonText(<<Pair("w.bin", DriveFileUrl), Pair("z.txt", DriveFileUrl)>>) }

\* The remote trees the model starts from: the bytes of every file that exists
\* (big.bin is real content or a Git LFS pointer, each manifest is optional),
\* and the files whose listing entry has no download_url.
NoFiles == [p \in {} |-> <<>>]

OptionalFile(rel, choices) == {NoFiles} \cup {rel :> c : c \in choices}

RemoteTrees ==
    { [bytes |-> (<<"big.bin">> :> big) @@ (<<"z.txt">> :> PlainBytes("z"))
                 @@ (<<"sub", "w.bin">> :> PlainBytes("w")) @@ rootMan @@ subMan,
       nourl |-> n] :
        big \in {PlainBytes("big"), PointerBytes},
        rootMan \in OptionalFile(<<DRIVE_MAP_NAME>>, RootManifests),
        subMan \in OptionalFile(<<"sub", DRIVE_MAP_NAME>>, SubManifests),
        n \in {{}, {<<"z.txt">>}} }

RemoteIsDir(rel) == rel \in RemoteDirs

RemoteExists(r, rel) == RemoteIsDir(rel) \/ rel \in DOMAIN r.bytes

\* download_url of a file entry; the empty sequence stands for null.
NoUrl == <<>>

DownloadUrlOf(r, rel) ==
    IF rel \in r.nourl THEN NoUrl
    ELSE <<"https://raw.githubusercontent.com", "models">> \o rel

\* The file a download_url serves.
RelOfDownloadUrl(url) == SubSeq(url, 3, Len(url))

\* The directory an API URL lists, relative to 'models'.
RelOfApiUrl(api_url) == SubSeq(api_url, Len(MODELS_DIR_API_URL) + 1, Len(api_url))

\* One element of the JSON array the contents API returns.
Entry(r, api_url, name) ==
    LET rel == RelOfApiUrl(api_url) \o <<name>>
    IN  [name |-> name,
         type |-> IF RemoteIsDir(rel) THEN "dir" ELSE "file",
         download_url |-> IF RemoteIsDir(rel) THEN NoUrl ELSE DownloadUrlOf(r, rel),
         url |-> api_url \o <<name>>]

RECURSIVE EntriesFrom(_, _, _, _)
EntriesFrom(r, api_url, names, i) ==
    IF i > Len(names) THEN <<>>
    ELSE (IF RemoteExists(r, RelOfApiUrl(api_url) \o <<names[i]>>)
          THEN <<Entry(r, api_url, names[i])>> ELSE <<>>)
         \o EntriesFrom(r, api_url, names, i + 1)

\* response.json() of a successful GET on a directory's API URL.
Listing(r, api_url) == EntriesFrom(r, api_url, NamesOf(RelOfApiUrl(api_url)), 1)

DefaultBranch == "main"

\* What a request can answer: an HTTP status, or "exc" for a transport exception.
Statuses == {"200", "403", "404", "500", "exc"}

\* Mutants: the client errors are let through; nothing is ever raised.
raise_for_status_server_only(status) == status \in {"500", "exc"}

raise_for_status_never(status) == FALSE

\* TRUE when requests.get / raise_for_status raises for this answer.
raise_for_status(status) == status # "200"

(***************************************************************************)
(* The local file system (pathlib, shutil)                                 *)
(***************************************************************************)
LocalPaths ==
    {CACHE_DIR, MODELS_DIR_LOCAL}
        \cup {MODELS_DIR_LOCAL \o rel : rel \in RemoteFilePaths \cup {<<"sub">>}}

NoNode == [kind |-> "none", bytes |-> <<>>]

DirNode == [kind |-> "dir", bytes |-> <<>>]

FileNode(bytes) == [kind |-> "file", bytes |-> bytes]

Parent(p) == SubSeq(p, 1, Len(p) - 1)

IsPrefix(p, q) == Len(p) <= Len(q) /\ SubSeq(q, 1, Len(p)) = p

\* Path.exists(), Path.is_dir(); the home directory <<>> always exists.
Exists(fs, p) == p = <<>> \/ fs[p].kind # "none"

IsDir(fs, p) == p = <<>> \/ fs[p].kind = "dir"

IsFile(fs, p) == p # <<>> /\ fs[p].kind = "file"

\* Mutant: exist_ok is left out, an existing directory is an error.
mkdir_parents_no_exist_ok(fs, p) ==
    LET chain == {q \in LocalPaths : IsPrefix(q, p)}
    IN  IF Exists(fs, p) \/ \E q \in chain : IsFile(fs, q)
        THEN [ok |-> FALSE, fs |-> fs]
        ELSE [ok |-> TRUE, fs |-> [q \in LocalPaths |-> IF q \in chain THEN DirNode ELSE fs[q]]]

\* Path.mkdir(parents=True, exist_ok=True): FileExistsError / NotADirectoryError
\* (ok = FALSE) when the path or one of its ancestors is a file.
mkdir_parents(fs, p) ==
    LET chain == {q \in LocalPaths : IsPrefix(q, p)}
    IN  IF \E q \in chain : IsFile(fs, q)
        THEN [ok |-> FALSE, fs |-> fs]
        ELSE [ok |-> TRUE, fs |-> [q \in LocalPaths |-> IF q \in chain THEN DirNode ELSE fs[q]]]

\* Path.mkdir(exist_ok=True): also FileNotFoundError when the parent is missing.
mkdir(fs, p) ==
    IF IsDir(fs, Parent(p)) /\ ~IsFile(fs, p)
    THEN [ok |-> TRUE, fs |-> [fs EXCEPT ![p] = DirNode]]
    ELSE [ok |-> FALSE, fs |-> fs]

\* shutil.rmtree(p)
rmtree(fs, p) == [q \in LocalPaths |-> IF IsPrefix(p, q) THEN NoNode ELSE fs[q]]

\* Path.write_bytes: IsADirectoryError (ok = FALSE) when the path is a directory.
write_bytes(fs, p, bytes) ==
    IF IsDir(fs, p)
    THEN [ok |-> FALSE, fs |-> fs]
    ELSE [ok |-> TRUE, fs |-> [fs EXCEPT ![p] = FileNode(bytes)]]

\* The entries below a directory.
Under(fs, dir) == {q \in LocalPaths : IsPrefix(dir, q) /\ q # dir /\ Exists(fs, q)}

(***************************************************************************)
(* Google Drive (gdown)                                                    *)
(***************************************************************************)
Event(op, target, arg, status, via) ==
    [op |-> op, target |-> target, arg |-> arg, status |-> status, via |-> via]

\* The test of line 95: "drive.google.com/drive/folders" in url_or_id
IsDriveFolderUrl(url) == Contains(url, <<"drive.google.com", "/drive/folders/">>)

\* What gdown is given: the folder URL, or the extracted file id, or the URL itself.
GdownArgument(url) ==
    IF IsDriveFolderUrl(url) THEN url
    ELSE IF extract_drive_file_id(url) # NoId THEN <<extract_drive_file_id(url)>>
    ELSE url

\* download_from_google_drive(url_or_id, output_path): the possible results.
\* The parent mkdir is outside the try block and may raise; every gdown error
\* is caught, printed and leaves the file system as it was.
download_from_google_drive(fs, url_or_id, output_path) ==
    LET mk == mkdir_parents(fs, Parent(output_path))
        folder == IsDriveFolderUrl(url_or_id)
        done == IF folder THEN [mk.fs EXCEPT ![output_path] = DirNode]
                ELSE [mk.fs EXCEPT ![output_path] = FileNode(DriveBytes)]
        canWrite == IF folder THEN ~IsFile(mk.fs, output_path)
                    ELSE ~IsDir(mk.fs, output_path)
    IN  IF ~mk.ok
        THEN {[raised |-> TRUE, status |-> "exc", fs |-> fs]}
        ELSE {[raised |-> FALSE, status |-> "err", fs |-> mk.fs]}
             \cup (IF canWrite
                   THEN {[raised |-> FALSE, status |-> "ok", fs |-> done]}
                   ELSE {})

(***************************************************************************)
(* download_github_with_drive_map and its recursive _download_folder       *)
(***************************************************************************)
EmptyMap == [k \in {} |-> <<>>]

NewFrame(api_url, local_dir) ==
    [api_url |-> api_url, local_dir |-> local_dir, stage |-> "enter",
     drive_map |-> EmptyMap, items |-> <<>>, idx |-> 1, default_branch |-> ""]

Top == stack[Len(stack)]

ReplaceTop(f) == [stack EXCEPT ![Len(stack)] = f]

\* An exception leaves every frame and the entry point.
Raise(fs, lg) ==
    /\ local' = fs
    /\ log' = lg
    /\ stack' = <<>>
    /\ pc' = "idle"
    /\ outcome' = "raised"
    /\ UNCHANGED <<remote, call, changes>>

\* Mutants: the URL test inverted; the URL test left out.
UsesDriveMap_inverted(drive_map, relative_name) ==
    /\ relative_name \in DOMAIN drive_map
    /\ ~is_google_drive_url(drive_map[relative_name])

UsesDriveMap_any_key(drive_map, relative_name) == relative_name \in DOMAIN drive_map

\* Mutant: directories are never taken from Google Drive.
UsesDriveMap_files_only(drive_map, relative_name) ==
    /\ relative_name \in DOMAIN drive_map
    /\ is_google_drive_url(drive_map[relative_name])
    /\ ~RemoteIsDir(<<relative_name>>)

\* Line 195: the entry is taken from Google Drive.
UsesDriveMap(drive_map, relative_name) ==
    /\ relative_name \in DOMAIN drive_map
    /\ is_google_drive_url(drive_map[relative_name])

\* Mutants: a pointer is replaced by the large object; nothing is written.
written_bytes_lfs(r_content) ==
    IF IsPointer(r_content) THEN PlainBytes("lfs-object") ELSE r_content

written_bytes_empty(r_content) == <<>>

\* Line 209: the bytes written are the bytes of the response.
written_bytes(r_content) == r_content

\* Mutant: the manifest of the start directory is read in every directory.
drive_map_path_of_root(local_dir) == MODELS_DIR_LOCAL \o <<DRIVE_MAP_NAME>>

\* Line 176: the manifest is looked for in the local directory being filled.
drive_map_path(local_dir) == local_dir \o <<DRIVE_MAP_NAME>>

\* Mutant: the default branch is resolved for the start directory only.
get_default_branch_cached(owner, repo, local_dir, status) ==
    IF local_dir = MODELS_DIR_LOCAL
    THEN <<Event("info", <<owner, repo>>, local_dir, status, <<>>)>>
    ELSE <<>>

\* Lines 149-168, called at line 188: the requests get_default_branch sends.
get_default_branch(owner, repo, local_dir, status) ==
    <<Event("info", <<owner, repo>>, local_dir, status, <<>>)>>

\* Mutant: the loop stays on the entry it has just processed.
Advance_stuck(f) == f

\* Line 190: the for loop moves to the next entry of the listing.
Advance(f) == [f EXCEPT !.idx = @ + 1]

\* Lines 175-188: create the local directory, load its drive_map.json if it is
\* there, request the listing, then the repository's default branch.
EnterFolder ==
    /\ pc = "walk"
    /\ Top.stage = "enter"
    /\ LET f == Top
           mk == mkdir_parents(local, f.local_dir)
           loaded == IF Exists(mk.fs, drive_map_path(f.local_dir))
                     THEN (IF IsDir(mk.fs, drive_map_path(f.local_dir))
                           THEN [ok |-> FALSE, value |-> EmptyMap]
                           ELSE json_load(mk.fs[drive_map_path(f.local_dir)].bytes))
                     ELSE [ok |-> TRUE, value |-> EmptyMap]
           parts == f.api_url
           listEv(s) == Event("list", f.api_url, f.local_dir, s, <<>>)
           infoEv(s) == get_default_branch(parts[5], parts[6], f.local_dir, s)
       IN  IF ~mk.ok THEN Raise(local, log)
           ELSE IF ~loaded.ok THEN Raise(mk.fs, log)
           ELSE \E s \in Statuses :
                   IF raise_for_status(s)
                   THEN Raise(mk.fs, Append(log, listEv(s)))
                   ELSE \E s2 \in Statuses :
                           IF raise_for_status(s2)
                           THEN Raise(mk.fs, log \o <<listEv(s)>> \o infoEv(s2))
                           ELSE /\ local' = mk.fs
                                /\ log' = log \o <<listEv(s)>> \o infoEv(s2)
                                /\ stack' = ReplaceTop(
                                      [f EXCEPT !.stage = "loop",
                                                !.drive_map = loaded.value,
                                                !.items = Listing(remote, f.api_url),
                                                !.idx = 1,
                                                !.default_branch = DefaultBranch])
                                /\ UNCHANGED <<remote, pc, call, outcome, changes>>

\* Lines 190-215: one iteration of the loop over the listing.
ProcessItem ==
    /\ pc = "walk"
    /\ Top.stage = "loop"
    /\ Top.idx <= Len(Top.items)
    /\ LET f == Top
           item == f.items[f.idx]
           relative_name == item.name
           local_path == f.local_dir \o <<relative_name>>
           next == Advance(f)
       IN  IF UsesDriveMap(f.drive_map, relative_name)
           THEN \E r \in download_from_google_drive(local, f.drive_map[relative_name], local_path) :
                   LET ev == Event("gdrive", f.drive_map[relative_name], local_path,
                                   r.status, GdownArgument(f.drive_map[relative_name]))
                   IN  IF r.raised THEN Raise(r.fs, log)
                       ELSE /\ local' = r.fs
                            /\ log' = Append(log, ev)
                            /\ stack' = ReplaceTop(next)
                            /\ UNCHANGED <<remote, pc, call, outcome, changes>>
           ELSE IF item.type = "file"
           THEN IF item.download_url = NoUrl
                THEN /\ stack' = ReplaceTop(next)
                     /\ UNCHANGED <<remote, local, pc, call, outcome, log, changes>>
                ELSE LET mk == mkdir_parents(local, Parent(local_path))
                         getEv(s) == Event("get", item.download_url, local_path, s, <<>>)
                         content == remote.bytes[RelOfDownloadUrl(item.download_url)]
                         w == write_bytes(mk.fs, local_path, written_bytes(content))
                     IN  IF ~mk.ok THEN Raise(local, log)
                         ELSE \E s \in Statuses :
                                 IF raise_for_status(s) \/ ~w.ok
                                 THEN Raise(mk.fs, Append(log, getEv(s)))
                                 ELSE /\ local' = w.fs
                                      /\ log' = log \o <<getEv(s),
                                                  Event("write", local_path, local_path, "ok", <<>>)>>
                                      /\ stack' = ReplaceTop(next)
                                      /\ UNCHANGED <<remote, pc, call, outcome, changes>>
           ELSE IF item.type = "dir"
           THEN /\ stack' = Append(ReplaceTop(next), NewFrame(item.url, local_path))
                /\ UNCHANGED <<remote, local, pc, call, outcome, log, changes>>
           ELSE /\ stack' = ReplaceTop(next)
                /\ UNCHANGED <<remote, local, pc, call, outcome, log, changes>>

\* The loop of a frame is over: _download_folder returns to its caller, and the
\* outermost frame returns from download_github_with_drive_map.
FolderReturn ==
    /\ pc = "walk"
    /\ Top.stage = "loop"
    /\ Top.idx > Len(Top.items)
    /\ stack' = SubSeq(stack, 1, Len(stack) - 1)
    /\ pc' = IF Len(stack) = 1 THEN "idle" ELSE "walk"
    /\ outcome' = IF Len(stack) = 1 THEN "returned" ELSE outcome
    /\ UNCHANGED <<remote, local, call, log, changes>>

\* Line 217: the walk starts at the given directory.
StartWalk(fn, overwrite, fs) ==
    /\ local' = fs
    /\ stack' = <<NewFrame(MODELS_DIR_API_URL, MODELS_DIR_LOCAL)>>
    /\ pc' = "walk"
    /\ call' = [fn |-> fn, overwrite |-> overwrite,
                fresh |-> Under(fs, MODELS_DIR_LOCAL) = {}]
    /\ outcome' = "running"
    /\ log' = <<>>
    /\ UNCHANGED <<remote, changes>>

\* A direct call download_github_with_drive_map(MODELS_DIR_API_URL, MODELS_DIR_LOCAL).
download_github_with_drive_map ==
    /\ pc = "idle"
    /\ StartWalk("download_github_with_drive_map", FALSE, local)

(***************************************************************************)
(* The cache wrapper                                                       *)
(***************************************************************************)
\* Mutant: nothing is removed.
clear_cache_keeps(fs) == fs

\* clear_cache(): remove the cache directory if it exists.
clear_cache(fs) == IF Exists(fs, CACHE_DIR) THEN rmtree(fs, CACHE_DIR) ELSE fs

\* Mutant: the negation is lost.
MustDownload_lost_not(overwrite, fs) ==
    overwrite \/ (Exists(fs, CACHE_DIR) /\ IsDir(fs, CACHE_DIR))

\* Line 239: the condition under which the cache is (re)built.
MustDownload(overwrite, fs) ==
    overwrite \/ ~(Exists(fs, CACHE_DIR) /\ IsDir(fs, CACHE_DIR))

download_cache_lib_data(overwrite) ==
    /\ pc = "idle"
    /\ IF MustDownload(overwrite, local)
       THEN LET cleared == IF overwrite THEN clear_cache(local) ELSE local
                m1 == mkdir_parents(cleared, CACHE_DIR)
                m2 == mkdir(m1.fs, MODELS_DIR_LOCAL)
            IN  IF m1.ok /\ m2.ok
                THEN StartWalk("download_cache_lib_data", overwrite, m2.fs)
                ELSE /\ call' = [fn |-> "download_cache_lib_data", overwrite |-> overwrite,
                                 fresh |-> FALSE]
                     /\ Raise(m2.fs, <<>>)
       ELSE /\ call' = [fn |-> "download_cache_lib_data", overwrite |-> overwrite,
                        fresh |-> FALSE]
            /\ outcome' = "skipped"
            /\ log' = <<>>
            /\ UNCHANGED <<remote, local, stack, pc, changes>>

(***************************************************************************)
(* The environment: between two calls a file may disappear upstream        *)
(***************************************************************************)
Deletable == {<<DRIVE_MAP_NAME>>, <<"z.txt">>}

RemoteChange ==
    /\ pc = "idle"
    /\ changes < MaxRemoteChanges
    /\ \E rel \in Deletable \cap DOMAIN remote.bytes :
          remote' = [bytes |-> [q \in (DOMAIN remote.bytes) \ {rel} |-> remote.bytes[q]],
                     nourl |-> remote.nourl \ {rel}]
    /\ changes' = changes + 1
    /\ call' = [fn |-> "none", overwrite |-> FALSE, fresh |-> FALSE]
    /\ outcome' = "none"
    /\ log' = <<>>
    /\ UNCHANGED <<local, stack, pc>>

(***************************************************************************)
(* The specification                                                       *)
(***************************************************************************)
Init ==
    /\ remote \in RemoteTrees
    /\ local = [p \in LocalPaths |-> NoNode]
    /\ stack = <<>>
    /\ pc = "idle"
    /\ call = [fn |-> "none", overwrite |-> FALSE, fresh |-> FALSE]
    /\ outcome = "none"
    /\ log = <<>>
    /\ changes = 0

Next ==
    \/ \E overwrite \in BOOLEAN : download_cache_lib_data(overwrite)
    \/ download_github_with_drive_map
    \/ EnterFolder
    \/ ProcessItem
    \/ FolderReturn
    \/ RemoteChange

Spec == Init /\ [][Next]_vars

\* Every request returns and the interpreter keeps running the call in progress.
FairSpec ==
    Spec /\ WF_vars(EnterFolder) /\ WF_vars(ProcessItem) /\ WF_vars(FolderReturn)

TypeOK ==
    /\ pc \in {"idle", "walk"}
    /\ outcome \in {"none", "running", "skipped", "returned", "raised"}
    /\ (pc = "walk") = (stack # <<>>)
    /\ (pc = "walk") = (outcome = "running")
    /\ \A p \in LocalPaths : local[p].kind \in {"none", "file", "dir"}

(***************************************************************************)
(* Vocabulary of the properties                                            *)
(***************************************************************************)
LogIdx == 1..Len(log)

Failed(ev) == ev.status \notin {"200", "ok"}

\* The remote file a local path mirrors.
RelOfLocal(p) == SubSeq(p, Len(MODELS_DIR_LOCAL) + 1, Len(p))

\* The loop of the innermost frame is about to process an entry.
AtItem == pc = "walk" /\ Top.stage = "loop" /\ Top.idx <= Len(Top.items)

CurItem == Top.items[Top.idx]

CurLocalPath == Top.local_dir \o <<CurItem.name>>

\* The events the step appends to the log.
NewEvents == IF Len(log') >= Len(log) THEN SubSeq(log', Len(log) + 1, Len(log')) ELSE <<>>

\* The manifest the remote directory of this file carries maps it to Google Drive.
RemoteMapsToDrive(rel) ==
    LET manifest == Parent(rel) \o <<DRIVE_MAP_NAME>>
        name == rel[Len(rel)]
    IN  /\ manifest \in DOMAIN remote.bytes
        /\ json_load(remote.bytes[manifest]).ok
        /\ UsesDriveMap(json_load(remote.bytes[manifest]).value, name)

\* What the local copy of a remote path should be.
MirrorNode(rel) ==
    IF rel \in DOMAIN remote.bytes THEN FileNode(remote.bytes[rel])
    ELSE IF RemoteIsDir(rel) THEN DirNode
    ELSE NoNode

Mirrored == \A rel \in RemoteFilePaths \cup {<<"sub">>} : local[MODELS_DIR_LOCAL \o rel] = MirrorNode(rel)

NoOverrideMap ==
    \A dir \in RemoteDirs :
        /\ dir \o <<DRIVE_MAP_NAME>> \notin DOMAIN remote.bytes
        /\ ~Exists(local, MODELS_DIR_LOCAL \o dir \o <<DRIVE_MAP_NAME>>)

(***************************************************************************)
(* C1                                                                      *)
(***************************************************************************)
\* C1: an entry whose name is a key of the loaded drive_map with a URL that
\* is_google_drive_url recognises is handed to download_from_google_drive by the
\* step that processes it, that step sends no request to its download_url, and
\* no run ever holds both a Drive download and a GitHub request for one entry,
\* whether the Drive download succeeded or not.
C1_OverridePriority ==
    /\ [][ (/\ AtItem
            /\ CurItem.name \in DOMAIN Top.drive_map
            /\ is_google_drive_url(Top.drive_map[CurItem.name]))
           => (/\ Len(NewEvents) = 1
               /\ NewEvents[1].op = "gdrive"
               /\ NewEvents[1].target = Top.drive_map[CurItem.name]
               /\ NewEvents[1].arg = CurLocalPath) ]_vars
    /\ [](\A i, j \in LogIdx :
            log[i].op = "gdrive" => ~(log[j].op = "get" /\ log[j].arg = log[i].arg))

\* A run returned in which a Drive download failed.
C1_Witness ==
    /\ outcome = "returned"
    /\ \E i \in LogIdx : log[i].op = "gdrive" /\ log[i].status = "err"

(***************************************************************************)
(* C2                                                                      *)
(***************************************************************************)
\* C2: a file that the drive_map.json of its remote directory maps to a
\* recognised Google Drive URL is never requested from GitHub, in any run.
C2_ManifestHonoured ==
    \A i \in LogIdx : log[i].op = "get" => ~RemoteMapsToDrive(RelOfLocal(log[i].arg))

(***************************************************************************)
(* C3                                                                      *)
(***************************************************************************)
\* C3 as stated: once a run has ended, a local file holding Git LFS pointer text
\* is one the run reported a failure for.
C3_NoPointerLeft ==
    (pc = "idle" /\ outcome \in {"returned", "raised"})
        => \A p \in LocalPaths :
              (IsFile(local, p) /\ IsPointer(local[p].bytes))
                 => \E i \in LogIdx : log[i].arg = p /\ Failed(log[i])

\* C3 amended: a file the run wrote from a GitHub response holds exactly the
\* bytes GitHub serves at its download_url, pointer text included, and every
\* GitHub file request goes to the entry's download_url (no raw large-object URL).
C3_PrimaryBytesKept ==
    \A i \in LogIdx :
        /\ log[i].op = "write"
              => local[log[i].arg] = FileNode(remote.bytes[RelOfLocal(log[i].arg)])
        /\ log[i].op = "get"
              => log[i].target = DownloadUrlOf(remote, RelOfLocal(log[i].arg))

\* A run returned normally and left pointer text it wrote itself.
C3_Witness ==
    /\ outcome = "returned"
    /\ \E i \in LogIdx :
          /\ log[i].op = "write"
          /\ IsPointer(local[log[i].arg].bytes)
          /\ ~\E j \in LogIdx : Failed(log[j])

C5_FailureIsolated ==
    \A i \in LogIdx :
        (pc = "idle" /\ log[i].op \in {"get", "gdrive"} /\ Failed(log[i]))
            => outcome = "returned"

(***************************************************************************)
(* C6                                                                      *)
(***************************************************************************)
\* C6 as stated: when a run returns and no override map is present, the local
\* tree equals the remote tree, with the remote bytes.
C6_Mirror ==
    (pc = "idle" /\ outcome = "returned" /\ NoOverrideMap) => Mirrored

\* C6 amended: the same, for a walk that started on a local directory without
\* entries and a remote tree whose file entries all carry a download_url.
C6_MirrorFresh ==
    (/\ pc = "idle"
     /\ outcome = "returned"
     /\ NoOverrideMap
     /\ call.fresh
     /\ remote.nourl = {}) => Mirrored

C6_Witness ==
    /\ pc = "idle"
    /\ outcome = "returned"
    /\ NoOverrideMap
    /\ call.fresh
    /\ remote.nourl = {}
    /\ IsFile(local, MODELS_DIR_LOCAL \o <<"sub", "w.bin">>)
    /\ IsPointer(local[MODELS_DIR_LOCAL \o <<"big.bin">>].bytes)

(***************************************************************************)
(* C7                                                                      *)
(***************************************************************************)
\* C7: between calls, a cache that download_cache_lib_data(overwrite=False)
\* accepts as present holds every remote directory and file.
C7_AcceptedCacheComplete ==
    (pc = "idle" /\ ~MustDownload(FALSE, local))
        => \A rel \in RemoteFilePaths \cup {<<"sub">>} :
              RemoteExists(remote, rel) => Exists(local, MODELS_DIR_LOCAL \o rel)

(***************************************************************************)
(* C8                                                                      *)
(***************************************************************************)
\* C8: download_cache_lib_data(overwrite=False) on an existing cache directory
\* starts no walk, sends no request and leaves the file system as it is.
C8_SkipIsNoOp ==
    [][ (/\ pc = "idle"
         /\ call'.fn = "download_cache_lib_data"
         /\ ~call'.overwrite
         /\ Exists(local, CACHE_DIR)
         /\ IsDir(local, CACHE_DIR))
        => (/\ local' = local
            /\ pc' = "idle"
            /\ stack' = <<>>
            /\ log' = <<>>
            /\ outcome' = "skipped") ]_vars

\* A call was skipped over a cache that is incomplete.
C8_Witness ==
    /\ outcome = "skipped"
    /\ call.fn = "download_cache_lib_data"
    /\ IsDir(local, MODELS_DIR_LOCAL)
    /\ ~IsFile(local, MODELS_DIR_LOCAL \o <<"z.txt">>)

(***************************************************************************)
(* C9                                                                      *)
(***************************************************************************)
\* C9 as stated: a run in which the listing of a directory other than the root
\* failed still returns.
C9_SubtreeOnly ==
    \A i \in LogIdx :
        (/\ pc = "idle"
         /\ log[i].op = "list"
         /\ Failed(log[i])
         /\ log[i].target # MODELS_DIR_API_URL) => outcome = "returned"

\* C9 amended: a failed listing request, of the root or of any other directory,
\* is the last thing the run does: the run raises there.
C9_ListingFailureAborts ==
    \A i \in LogIdx :
        (log[i].op = "list" /\ Failed(log[i]))
            => (i = Len(log) /\ pc = "idle" /\ outcome = "raised")

\* The listing of 'sub' failed: the run is over and z.txt, listed after 'sub',
\* was never requested.
C9_Witness ==
    /\ outcome = "raised"
    /\ <<"z.txt">> \in DOMAIN remote.bytes
    /\ \E i \in LogIdx :
          /\ log[i].op = "list"
          /\ Failed(log[i])
          /\ log[i].target = MODELS_DIR_API_URL \o <<"sub">>
    /\ ~\E j \in LogIdx : log[j].arg = MODELS_DIR_LOCAL \o <<"z.txt">>

(***************************************************************************)
(* C10                                                                     *)
(***************************************************************************)
\* C10: a file entry whose name is a key of the loaded drive_map with a URL that
\* is_google_drive_url does not recognise is treated as an unmapped file: the
\* step requests its download_url, calls no Drive download, and on a 200 answer
\* writes the served bytes to local_dir/name and the walk goes on.
C10_UnrecognisedFallsBack ==
    [][ (/\ AtItem
         /\ CurItem.name \in DOMAIN Top.drive_map
         /\ ~is_google_drive_url(Top.drive_map[CurItem.name])
         /\ CurItem.type = "file"
         /\ CurItem.download_url # NoUrl)
        => (/\ Len(NewEvents) >= 1
            /\ NewEvents[1].op = "get"
            /\ NewEvents[1].target = CurItem.download_url
            /\ NewEvents[1].arg = CurLocalPath
            /\ \A k \in 1..Len(NewEvents) : NewEvents[k].op # "gdrive"
            /\ (NewEvents[1].status = "200" /\ ~IsDir(local, CurLocalPath))
                  => /\ local'[CurLocalPath]
                          = FileNode(remote.bytes[RelOfDownloadUrl(CurItem.download_url)])
                     /\ pc' = "walk") ]_vars

\* big.bin, mapped to a URL of another host, has just been written from GitHub.
C10_Witness ==
    /\ pc = "walk"
    /\ Top.stage = "loop"
    /\ "big.bin" \in DOMAIN Top.drive_map
    /\ ~is_google_drive_url(Top.drive_map["big.bin"])
    /\ Len(log) > 0
    /\ log[Len(log)].op = "write"
    /\ log[Len(log)].arg = Top.local_dir \o <<"big.bin">>

(***************************************************************************)
(* C11                                                                     *)
(***************************************************************************)
\* A file or Drive folder the step puts on disk.
PutsOnDisk(ev) == ev.op = "write" \/ (ev.op = "gdrive" /\ ev.status = "ok")

\* C11: whenever a step writes a file (from GitHub or from Google Drive), the
\* parent directory of the written path is a directory before the step; and
\* entering a folder whose local directory already exists is no mkdir error
\* and changes nothing on disk.
C11_ParentBeforeWrite ==
    [][ /\ \A k \in 1..Len(NewEvents) :
              PutsOnDisk(NewEvents[k]) => IsDir(local, Parent(NewEvents[k].arg))
        /\ \A p \in LocalPaths :
              (local'[p] # local[p] /\ local'[p].kind = "file") => IsDir(local, Parent(p))
        /\ (pc = "walk" /\ Top.stage = "enter" /\ IsDir(local, Top.local_dir))
              => /\ mkdir_parents(local, Top.local_dir) = [ok |-> TRUE, fs |-> local]
                 /\ local' = local ]_vars

\* A walk over a directory that was already filled has just rewritten sub/w.bin.
C11_Witness ==
    /\ pc = "walk"
    /\ ~call.fresh
    /\ Len(log) > 0
    /\ log[Len(log)].op = "write"
    /\ log[Len(log)].arg = MODELS_DIR_LOCAL \o <<"sub", "w.bin">>

(***************************************************************************)
(* C12                                                                     *)
(***************************************************************************)
\* C12: the drive_map of a frame is what json.load gives for the drive_map.json
\* found in that frame's own local directory when the folder is entered (the
\* empty map when there is none), it never changes afterwards, and an entry goes
\* to Google Drive exactly when the map of its own frame maps it to a recognised
\* URL, whatever the maps of the enclosing frames say.
C12_MapIsDirectoryScoped ==
    /\ [][ (pc = "walk" /\ Top.stage = "enter" /\ pc' = "walk")
           => stack'[Len(stack)].drive_map
                 = (IF IsFile(local, Top.local_dir \o <<DRIVE_MAP_NAME>>)
                    THEN json_load(local[Top.local_dir \o <<DRIVE_MAP_NAME>>].bytes).value
                    ELSE EmptyMap) ]_vars
    /\ [][ \A k \in 1..Len(stack) :
              (k <= Len(stack') /\ stack[k].stage = "loop")
                 => stack'[k].drive_map = stack[k].drive_map ]_vars
    /\ [][ AtItem
           => ((\E k \in 1..Len(NewEvents) : NewEvents[k].op = "gdrive")
                <=> (/\ CurItem.name \in DOMAIN Top.drive_map
                     /\ is_google_drive_url(Top.drive_map[CurItem.name]))) ]_vars

\* The manifest of 'models' maps w.bin to Google Drive, that of 'sub' does not,
\* and sub/w.bin has just been written from GitHub.
C12_Witness ==
    /\ pc = "walk"
    /\ Len(stack) = 2
    /\ "w.bin" \in DOMAIN stack[1].drive_map
    /\ is_google_drive_url(stack[1].drive_map["w.bin"])
    /\ "w.bin" \notin DOMAIN stack[2].drive_map
    /\ Len(log) > 0
    /\ log[Len(log)].op = "write"
    /\ log[Len(log)].arg = MODELS_DIR_LOCAL \o <<"sub", "w.bin">>

(***************************************************************************)
(* C13                                                                     *)
(***************************************************************************)
\* C13: within one run no local path is the target of two downloads: the only
\* two events of a run about the same path are the GitHub request of a file and
\* the write that directly follows it.
C13_OncePerRun ==
    \A i, j \in LogIdx :
        (/\ i < j
         /\ log[i].op \in {"get", "gdrive", "write"}
         /\ log[j].op \in {"get", "gdrive", "write"}
         /\ log[i].arg = log[j].arg)
            => (log[i].op = "get" /\ log[j].op = "write" /\ j = i + 1)

\* A run returned after writing five files.
C13_Witness ==
    /\ outcome = "returned"
    /\ Cardinality({i \in LogIdx : log[i].op = "write"}) = 5

(***************************************************************************)
(* C14                                                                     *)
(***************************************************************************)
InfoRequests == {i \in LogIdx : log[i].op = "info"}

\* C14 as stated: a run that returned sent the repository request exactly once.
C14_BranchOnce ==
    (pc = "idle" /\ outcome = "returned") => Cardinality(InfoRequests) = 1

\* C14 amended: the repository request is sent once for every directory whose
\* listing succeeded, right after that listing, and at no other moment.
C14_BranchPerDirectory ==
    \A i \in LogIdx :
        /\ (log[i].op = "list" /\ ~Failed(log[i]))
              => (i < Len(log) /\ log[i + 1].op = "info" /\ log[i + 1].arg = log[i].arg)
        /\ log[i].op = "info"
              => (/\ i > 1
                  /\ log[i - 1].op = "list"
                  /\ ~Failed(log[i - 1])
                  /\ log[i - 1].arg = log[i].arg)

\* A run returned after two repository requests, one per directory.
C14_Witness ==
    /\ outcome = "returned"
    /\ Cardinality(InfoRequests) = 2

(***************************************************************************)
(* C15                                                                     *)
(***************************************************************************)
\* C15: a 'dir' entry that the drive_map of its frame maps to a recognised URL
\* is handed to download_from_google_drive by the step that processes it, no
\* frame is pushed for it, and the run never lists it nor requests anything
\* below it from GitHub.
C15_MappedDirNotWalked ==
    /\ [][ (/\ AtItem
            /\ CurItem.type = "dir"
            /\ CurItem.name \in DOMAIN Top.drive_map
            /\ is_google_drive_url(Top.drive_map[CurItem.name]))
           => (/\ Len(NewEvents) = 1
               /\ NewEvents[1].op = "gdrive"
               /\ NewEvents[1].arg = CurLocalPath
               /\ Len(stack') = Len(stack)) ]_vars
    /\ [](\A i, j \in LogIdx :
            (log[i].op = "gdrive" /\ log[j].op \in {"list", "get"})
                => ~IsPrefix(log[i].arg, log[j].arg))

\* A run returned in which 'sub' was downloaded from Google Drive as a folder.
C15_Witness ==
    /\ outcome = "returned"
    /\ <<"sub", "w.bin">> \in DOMAIN remote.bytes
    /\ \E i \in LogIdx :
          /\ log[i].op = "gdrive"
          /\ log[i].status = "ok"
          /\ log[i].arg = MODELS_DIR_LOCAL \o <<"sub">>

(***************************************************************************)
(* C16                                                                     *)
(***************************************************************************)
EmptyCache ==
    [p \in LocalPaths |-> IF p \in {CACHE_DIR, MODELS_DIR_LOCAL} THEN DirNode ELSE NoNode]

\* C16: download_cache_lib_data(overwrite=True) leaves, before any request, a
\* cache that holds the empty models directory and nothing else, with the walk
\* about to enter it; so no frame of that run loads a drive_map.json left by an
\* earlier run.
C16_ClearedBeforeWalk ==
    /\ [][ (pc = "idle" /\ call'.fn = "download_cache_lib_data" /\ call'.overwrite)
           => (/\ local' = EmptyCache
               /\ log' = <<>>
               /\ pc' = "walk"
               /\ stack' = <<NewFrame(MODELS_DIR_API_URL, MODELS_DIR_LOCAL)>>) ]_vars
    /\ []((pc = "walk" /\ call.fn = "download_cache_lib_data" /\ call.overwrite)
            => \A k \in 1..Len(stack) : stack[k].drive_map = EmptyMap)

\* An overwrite call has listed 'models' although upstream carries a manifest
\* that a walk over the old cache would have loaded.
C16_Witness ==
    /\ pc = "walk"
    /\ call.fn = "download_cache_lib_data"
    /\ call.overwrite
    /\ Len(stack) = 1
    /\ Top.stage = "loop"
    /\ Top.drive_map = EmptyMap
    /\ RemoteMapsToDrive(<<"big.bin">>)

(***************************************************************************)
(* C17                                                                     *)
(***************************************************************************)
\* C17: a call in progress ends, by returning or by raising; while it runs, the
\* frames below the innermost one stand still (a subdirectory is finished
\* before its parent goes on), a step on an entry moves the loop of its frame
\* forward over the same listing, and a frame is pushed only for the 'dir'
\* entry being processed.
C17_TerminatesInOrder ==
    /\ (pc = "walk") ~> (pc = "idle" /\ outcome \in {"returned", "raised"})
    /\ [][ (pc = "walk" /\ pc' = "walk")
           => (/\ \A k \in 1..(Len(stack) - 1) : stack'[k] = stack[k]
               /\ AtItem => (/\ Len(stack') >= Len(stack)
                             /\ stack'[Len(stack)].idx > Top.idx
                             /\ stack'[Len(stack)].items = Top.items)
               /\ Len(stack') > Len(stack)
                     => (/\ AtItem
                         /\ CurItem.type = "dir"
                         /\ Len(stack') = Len(stack) + 1
                         /\ stack'[Len(stack')].api_url = CurItem.url
                         /\ stack'[Len(stack')].local_dir = CurLocalPath
                         /\ stack'[Len(stack')].stage = "enter")) ]_vars

\* A run returned after it fetched sub/w.bin and then z.txt, listed after 'sub'.
C17_Witness ==
    /\ outcome = "returned"
    /\ \E i, j \in LogIdx :
          /\ i < j
          /\ log[i].op = "write"
          /\ log[i].arg = MODELS_DIR_LOCAL \o <<"sub", "w.bin">>
          /\ log[j].op = "write"
          /\ log[j].arg = MODELS_DIR_LOCAL \o <<"z.txt">>

====
